---- MODULE Spec2Model ----
(***************************************************************************)
(* Document ingestion pipeline of the research platform backend:          *)
(* upload -> process_document_task (fetch, extract, fragment, embed,      *)
(* persist, vector index, lexical index) and delete_document, over the    *)
(* relational store, the blob store, the vector index and the lexical     *)
(* index.                                                                  *)
(*                                                                         *)
(* Text is a sequence of one-character strings over a small alphabet:     *)
(* "a" (a word character), "." (terminal punctuation), " " (whitespace).  *)
(***************************************************************************)
EXTENDS Integers, Sequences, FiniteSets, TLC

\* ------------------------------------------------------------------ bounds

\* Number of documents that may be uploaded (document ids 1..MaxDocs).
MaxDocs == 2
\* Number of process_document_task runs that may be enqueued in total.
MaxRuns == 2
\* Longest text handed to chunk_text directly (in characters).
MaxTextLen == 7
\* Most pages handed to chunk_with_page_info directly.
MaxPages == 2
\* Largest chunk_size and overlap a ChunkingService is constructed with.
MaxChunkSize == 3
MaxOverlap == 2

\* ------------------------------------------------------- program constants

\* Settings.chunk_size and Settings.chunk_overlap
settings_chunk_size == 750
settings_chunk_overlap == 100

\* ProcessingStatus
PENDING == "pending"
PROCESSING == "processing"
COMPLETED == "completed"
FAILED == "failed"
ProcessingStatus == {PENDING, PROCESSING, COMPLETED, FAILED}

\* SQL NULL / Python None: of an integer column, of a key, of a text column
None == 0
NoKey == <<"none", 0, 0>>
NoMessage == "<null>"

\* Fresh keys. The serial of chunks.id, the uuid4 of a point and the _id the
\* lexical index generates are each unique; the key made for fragment i by
\* task invocation r stands for it.
ChunkId(r, i) == <<"chunk", r, i>>
VectorId(r, i) == <<"point", r, i>>
SearchId(r, i) == <<"es", r, i>>
\* The task invocation a key was made by.
RunOf(key) == key[2]

\* ------------------------------------------------------------- Fragmenter

IsWordChar(c) == c = "a"
IsTerminator(c) == c = "."
IsSpace(c) == c = " "

\* First index >= i of text that is not whitespace (Len(text)+1 when none).
RECURSIVE SkipSpaces(_, _)
SkipSpaces(text, i) ==
    IF i > Len(text) \/ ~IsSpace(text[i]) THEN i ELSE SkipSpaces(text, i + 1)

\* re.split(r'(?<=[.!?])\s+', text): cut at every whitespace run that directly
\* follows terminal punctuation; the run itself is dropped.
RECURSIVE SplitFrom(_, _, _, _)
SplitFrom(text, i, cur, acc) ==
    IF i > Len(text) THEN Append(acc, cur)
    ELSE IF IsSpace(text[i]) /\ i > 1 /\ IsTerminator(text[i - 1])
         THEN SplitFrom(text, SkipSpaces(text, i), <<>>, Append(acc, cur))
         ELSE SplitFrom(text, i + 1, Append(cur, text[i]), acc)

SplitSentences(text) == SplitFrom(text, 1, <<>>, <<>>)

\* len(re.findall(r'\b\w+\b', text)): the number of maximal runs of word chars.
estimate_tokens(text) ==
    Cardinality({i \in 1..Len(text) :
                    IsWordChar(text[i]) /\ (i = 1 \/ ~IsWordChar(text[i - 1]))})

\* ' '.join(sentences)
RECURSIVE Join(_)
Join(sentences) ==
    IF sentences = <<>> THEN <<>>
    ELSE IF Len(sentences) = 1 THEN sentences[1]
    ELSE sentences[1] \o <<" ">> \o Join(Tail(sentences))

\* The overlap loop: walk current_chunk backward from index k, keeping
\* sentences while the running total stays <= overlap; stop at the first
\* sentence that would exceed it.
RECURSIVE OverlapFrom(_, _, _, _, _)
OverlapFrom(current_chunk, k, overlap, overlap_sentences, overlap_tokens) ==
    IF k = 0 THEN [sentences |-> overlap_sentences, tokens |-> overlap_tokens]
    ELSE LET sent_tokens == estimate_tokens(current_chunk[k]) IN
         IF overlap_tokens + sent_tokens <= overlap
         THEN OverlapFrom(current_chunk, k - 1, overlap,
                          <<current_chunk[k]>> \o overlap_sentences,
                          overlap_tokens + sent_tokens)
         ELSE [sentences |-> overlap_sentences, tokens |-> overlap_tokens]

\* The dict appended to chunks. Two history fields record what the text was
\* joined from: units is current_chunk at that moment, seeded is how many of
\* them were put there by the overlap loop (line 86) rather than by line 90.
MakeChunk(chunk_index, current_chunk, current_tokens, seeded) ==
    [chunk_index |-> chunk_index, text |-> Join(current_chunk),
     token_count |-> current_tokens, page_number |-> None,
     units |-> current_chunk, seeded |-> seeded]

\* Mutant: the unit that closes a fragment is not carried into the next one.
RECURSIVE ChunkLoop_drops_closing_unit(_, _, _, _, _, _, _, _, _)
ChunkLoop_drops_closing_unit(sentences, i, chunk_size, overlap, chunks, current_chunk, current_tokens, chunk_index, seeded) ==
    IF i > Len(sentences)
    THEN IF current_chunk # <<>>
         THEN Append(chunks, MakeChunk(chunk_index, current_chunk, current_tokens,
                                       seeded))
         ELSE chunks
    ELSE LET sentence == sentences[i]
             sentence_tokens == estimate_tokens(sentence)
         IN IF current_tokens + sentence_tokens > chunk_size /\ current_chunk # <<>>
            THEN LET ov == OverlapFrom(current_chunk, Len(current_chunk), overlap,
                                       <<>>, 0)
                 IN ChunkLoop_drops_closing_unit(sentences, i + 1, chunk_size,
                              overlap,
                              Append(chunks, MakeChunk(chunk_index, current_chunk,
                                                       current_tokens, seeded)),
                              ov.sentences, ov.tokens, chunk_index + 1,
                              Len(ov.sentences))
            ELSE ChunkLoop_drops_closing_unit(sentences, i + 1, chunk_size, overlap,
                           chunks, Append(current_chunk, sentence),
                           current_tokens + sentence_tokens, chunk_index, seeded)

\* Mutant: the running fragment is closed when the total reaches chunk_size.
RECURSIVE ChunkLoop_closes_at_target(_, _, _, _, _, _, _, _, _)
ChunkLoop_closes_at_target(sentences, i, chunk_size, overlap, chunks, current_chunk, current_tokens, chunk_index, seeded) ==
    IF i > Len(sentences)
    THEN IF current_chunk # <<>>
         THEN Append(chunks, MakeChunk(chunk_index, current_chunk, current_tokens,
                                       seeded))
         ELSE chunks
    ELSE LET sentence == sentences[i]
             sentence_tokens == estimate_tokens(sentence)
         IN IF current_tokens + sentence_tokens >= chunk_size /\ current_chunk # <<>>
            THEN LET ov == OverlapFrom(current_chunk, Len(current_chunk), overlap,
                                       <<>>, 0)
                 IN ChunkLoop_closes_at_target(sentences, i + 1, chunk_size, overlap,
                              Append(chunks, MakeChunk(chunk_index, current_chunk,
                                                       current_tokens, seeded)),
                              Append(ov.sentences, sentence),
                              ov.tokens + sentence_tokens, chunk_index + 1,
                              Len(ov.sentences))
            ELSE ChunkLoop_closes_at_target(sentences, i + 1, chunk_size, overlap,
                           chunks, Append(current_chunk, sentence),
                           current_tokens + sentence_tokens, chunk_index, seeded)

\* The body of the for loop of chunk_text, from sentence i on.
RECURSIVE ChunkLoop(_, _, _, _, _, _, _, _, _)
ChunkLoop(sentences, i, chunk_size, overlap, chunks, current_chunk, current_tokens, chunk_index, seeded) ==
    IF i > Len(sentences)
    THEN IF current_chunk # <<>>
         THEN Append(chunks, MakeChunk(chunk_index, current_chunk, current_tokens,
                                       seeded))
         ELSE chunks
    ELSE LET sentence == sentences[i]
             sentence_tokens == estimate_tokens(sentence)
         IN IF current_tokens + sentence_tokens > chunk_size /\ current_chunk # <<>>
            THEN LET ov == OverlapFrom(current_chunk, Len(current_chunk), overlap,
                                       <<>>, 0)
                 IN ChunkLoop(sentences, i + 1, chunk_size, overlap,
                              Append(chunks, MakeChunk(chunk_index, current_chunk,
                                                       current_tokens, seeded)),
                              Append(ov.sentences, sentence),
                              ov.tokens + sentence_tokens, chunk_index + 1,
                              Len(ov.sentences))
            ELSE ChunkLoop(sentences, i + 1, chunk_size, overlap, chunks,
                           Append(current_chunk, sentence),
                           current_tokens + sentence_tokens, chunk_index, seeded)

\* ChunkingService(chunk_size, overlap).chunk_text(text); the constructor
\* replaces a falsy argument (None or 0) by the configured default.
chunk_text(text, chunk_size_arg, overlap_arg) ==
    LET chunk_size == IF chunk_size_arg = 0 THEN settings_chunk_size
                      ELSE chunk_size_arg
        overlap == IF overlap_arg = 0 THEN settings_chunk_overlap ELSE overlap_arg
    IN ChunkLoop(SplitSentences(text), 1, chunk_size, overlap, <<>>, <<>>, 0, 0, 0)

\* Mutant: the page number is stamped but the chunk_index of chunk_text is
\* kept.
StampPage_keeps_page_index(page_chunks, chunk_index, page_number) ==
    [k \in 1..Len(page_chunks) |->
        [page_chunks[k] EXCEPT !.page_number = page_number]]

\* Renumber the chunks of one page from chunk_index on and stamp the page.
StampPage(page_chunks, chunk_index, page_number) ==
    [k \in 1..Len(page_chunks) |->
        [page_chunks[k] EXCEPT !.chunk_index = chunk_index + k - 1,
                               !.page_number = page_number]]

RECURSIVE PageLoop(_, _, _, _, _, _)
PageLoop(pages, p, chunk_size_arg, overlap_arg, all_chunks, chunk_index) ==
    IF p > Len(pages) THEN all_chunks
    ELSE LET page_chunks == chunk_text(pages[p].text, chunk_size_arg, overlap_arg)
         IN PageLoop(pages, p + 1, chunk_size_arg, overlap_arg,
                     all_chunks \o StampPage(page_chunks, chunk_index,
                                             pages[p].page_number),
                     chunk_index + Len(page_chunks))

\* The texts of the pages joined into one text.
RECURSIVE JoinPages(_)
JoinPages(pages) ==
    IF pages = <<>> THEN <<>>
    ELSE IF Len(pages) = 1 THEN pages[1].text
    ELSE pages[1].text \o <<" ">> \o JoinPages(Tail(pages))

\* Mutant: the pages are fragmented as one running text, so that a fragment
\* and its overlap run across page boundaries.
chunk_with_page_info_across_pages(pages, chunk_size_arg, overlap_arg) ==
    StampPage(chunk_text(JoinPages(pages), chunk_size_arg, overlap_arg), 0,
              IF pages = <<>> THEN None ELSE pages[1].page_number)

chunk_with_page_info(pages, chunk_size_arg, overlap_arg) ==
    PageLoop(pages, 1, chunk_size_arg, overlap_arg, <<>>, 0)

\* ------------------------------------------------------------ PDF parser

\* An uploaded file is what its bytes parse to: either page texts, or the
\* error PyMuPDF raises when opening them.
PageOne == <<"a", ".", " ", "a">>
PageTwo == <<"a", ".">>
PageBlank == <<>>

FileSinglePage == [valid |-> TRUE, error |-> NoMessage, texts |-> <<PageOne>>]
FileTwoPages == [valid |-> TRUE, error |-> NoMessage, texts |-> <<PageTwo, PageBlank>>]
FileBroken == [valid |-> FALSE, error |-> "cannot open broken document", texts |-> <<>>]
Files == {FileSinglePage, FileTwoPages, FileBroken}
NoFile == [valid |-> FALSE, error |-> NoMessage, texts |-> <<>>]

\* PDFParser.extract_text_by_page: one dict per page, numbered from 1.
extract_text_by_page(file_bytes) ==
    [n \in 1..Len(file_bytes.texts) |->
        [page_number |-> n, text |-> file_bytes.texts[n]]]

\* PDFParser.extract_text: only metadata["page_count"] is used by the task.
extract_page_count(file_bytes) == Len(file_bytes.texts)

\* --------------------------------------------------------- Embedding model

\* SentenceTransformer.encode is a function of the text alone.
Embedding(text) == [of |-> text]

\* EmbeddingService.encode_batch: one vector per text, same order.
encode_batch(texts) == [i \in 1..Len(texts) |-> Embedding(texts[i])]

\* ------------------------------------------------------------------ state

VARIABLES
    documents,         \* committed rows of table documents: id -> row
    next_document_id,  \* the serial of documents.id
    chunks,            \* committed rows of table chunks
    storage,           \* blob store: document id (object name) -> file
    vectors,           \* points of the vector collection
    lexical,           \* documents of the lexical index
    runs,              \* process_document_task invocations, in enqueue order
    deleting,          \* delete_document requests between their index
                       \* deletes and their database commit
    call,              \* a direct call of the ChunkingService: its arguments
    returned           \* what that call returned

vars == <<documents, next_document_id, chunks, storage, vectors, lexical, runs,
          deleting, call, returned>>

\* The stores and the task invocations; the direct call of the fragmenter.
pipeline_vars == <<documents, next_document_id, chunks, storage, vectors, lexical,
                   runs, deleting>>
fragmenter_vars == <<call, returned>>

\* No direct call of the ChunkingService is made.
NoCall == [method |-> "none", text |-> <<>>, pages |-> <<>>, chunk_size |-> 0,
           overlap |-> 0]
NotReturned == [done |-> FALSE, chunks |-> <<>>]

DocIds == 1..MaxDocs

\* Where a run stands.
Active == {"queued", "fetch", "extract", "embed", "persist", "vectors",
           "lexical", "complete", "except"}
\* "done": the task returned; "raised": an exception left the task.
Terminated == {"done", "raised"}

\* The steps at which an exception was raised.
NoStep == "none"

NewRun(document_id) ==
    [document_id |-> document_id, pc |-> "queued",
     began |-> FALSE,            \* status PROCESSING was committed by this run
     file_bytes |-> NoFile,
     page_count |-> None,        \* pending document.page_count
     chunks_data |-> <<>>,
     embeddings_list |-> <<>>,
     chunk_records |-> <<>>,     \* Chunk objects of the session
     vector_payloads |-> <<>>,
     search_docs |-> <<>>,
     vector_ids |-> <<>>,        \* the keys add_vectors returned
     search_ids |-> <<>>,        \* the keys index_chunk returned, in order
     flushed |-> FALSE,          \* the open transaction holds the INSERTs
     session_failed |-> FALSE,   \* a flush failed and was not rolled back
     error |-> NoMessage,        \* str(e) of the caught exception
     failed_at |-> NoStep,
     result |-> "none"]

NewDocument ==
    [status |-> PENDING, error_message |-> NoMessage, chunk_count |-> 0,
     page_count |-> None]

Init ==
    /\ documents = <<>>
    /\ next_document_id = 1
    /\ chunks = {}
    /\ storage = <<>>
    /\ vectors = {}
    /\ lexical = {}
    /\ runs = <<>>
    /\ deleting = {}
    /\ call = NoCall
    /\ returned = NotReturned

Exists(d) == d \in DOMAIN documents

\* A run whose transaction holds uncommitted writes that reference document d
\* (the flushed chunk INSERTs and the document UPDATE): the row is locked
\* against DELETE until the transaction ends.
DocLocked(d) ==
    \E r \in DOMAIN runs :
        /\ runs[r].document_id = d
        /\ runs[r].pc \in Active
        /\ runs[r].flushed

\* A run on d that has not terminated.
HasActiveRun(d) ==
    \E r \in DOMAIN runs : runs[r].document_id = d /\ runs[r].pc \in Active

Remove(f, d) == [x \in DOMAIN f \ {d} |-> f[x]]
Put(f, d, v) == [x \in DOMAIN f \cup {d} |-> IF x = d THEN v ELSE f[x]]

\* ------------------------------------------------------------ HTTP layer

\* Mutant: the handler sends the task twice.
upload_document_enqueues_twice(file) ==
    /\ next_document_id <= MaxDocs
    /\ Len(runs) < MaxRuns
    /\ storage' = Put(storage, next_document_id, file)
    /\ documents' = Put(documents, next_document_id, NewDocument)
    /\ next_document_id' = next_document_id + 1
    /\ runs' = Append(Append(runs, NewRun(next_document_id)), NewRun(next_document_id))
    /\ UNCHANGED <<chunks, vectors, lexical, deleting>>

\* POST /api/upload of a file whose content type says PDF: store the blob,
\* commit the document row as pending, then enqueue the processing task.
upload_document(file) ==
    /\ next_document_id <= MaxDocs
    /\ Len(runs) < MaxRuns
    /\ storage' = Put(storage, next_document_id, file)
    /\ documents' = Put(documents, next_document_id, NewDocument)
    /\ next_document_id' = next_document_id + 1
    /\ runs' = Append(runs, NewRun(next_document_id))
    /\ UNCHANGED <<chunks, vectors, lexical, deleting>>

\* The task tasks.process_document sent for a document id by a caller other
\* than upload (the exposed process(document_id)); callers keep at most one
\* active run per document.
process(d) ==
    /\ d < next_document_id
    /\ Len(runs) < MaxRuns
    /\ ~HasActiveRun(d)
    /\ runs' = Append(runs, NewRun(d))
    /\ UNCHANGED <<documents, next_document_id, chunks, storage, vectors,
                   lexical, deleting>>

\* Mutant: delete_document leaves out the delete_by_document_id of the
\* lexical index.
delete_document_stores_keeps_lexical(d) ==
    /\ Exists(d)
    /\ d \notin deleting
    /\ storage' = Remove(storage, d)
    /\ vectors' = {p \in vectors : p.document_id # d}
    /\ deleting' = deleting \cup {d}
    /\ UNCHANGED <<documents, next_document_id, chunks, runs, lexical>>

\* DELETE /api/documents/{id}, up to the database delete: the blob, the
\* points and the indexed documents of d are removed.
delete_document_stores(d) ==
    /\ Exists(d)
    /\ d \notin deleting
    /\ storage' = Remove(storage, d)
    /\ vectors' = {p \in vectors : p.document_id # d}
    /\ lexical' = {e \in lexical : e.document_id # d}
    /\ deleting' = deleting \cup {d}
    /\ UNCHANGED <<documents, next_document_id, chunks, runs>>

\* db.delete(document); db.commit(): waits for a transaction that locks the
\* row, then removes it; ON DELETE CASCADE removes its chunk rows.
delete_document_commit(d) ==
    /\ d \in deleting
    /\ ~DocLocked(d)
    /\ documents' = Remove(documents, d)
    /\ chunks' = {c \in chunks : c.document_id # d}
    /\ deleting' = deleting \ {d}
    /\ UNCHANGED <<next_document_id, storage, vectors, lexical, runs>>

\* ------------------------------------------------- process_document_task

SetRun(r, rec) == runs' = [runs EXCEPT ![r] = rec]

\* raise inside the try block: control goes to the except clause.
Raise(r, step, message) ==
    [runs[r] EXCEPT !.pc = "except", !.error = message, !.failed_at = step]

\* Mutant: the run resets the document for processing instead of marking it.
StartStatus_reset == PENDING

\* The status written when the run starts.
StartStatus == PROCESSING

\* Mutant: the run goes on to fetch without writing and committing the status.
Begin_without_commit(r) ==
    LET d == runs[r].document_id IN
    /\ runs[r].pc = "queued"
    /\ IF ~Exists(d)
       THEN SetRun(r, [runs[r] EXCEPT !.pc = "done", !.result = "not_found"])
       ELSE SetRun(r, [runs[r] EXCEPT !.pc = "fetch"])
    /\ UNCHANGED <<documents, next_document_id, chunks, storage, vectors,
                   lexical, deleting>>

\* Query the document; return if there is none, else mark it processing
\* and commit.
Begin(r) ==
    LET d == runs[r].document_id IN
    /\ runs[r].pc = "queued"
    /\ IF ~Exists(d)
       THEN /\ SetRun(r, [runs[r] EXCEPT !.pc = "done", !.result = "not_found"])
            /\ UNCHANGED documents
       ELSE /\ documents' = [documents EXCEPT ![d].status = StartStatus]
            /\ SetRun(r, [runs[r] EXCEPT !.pc = "fetch", !.began = TRUE])
    /\ UNCHANGED <<next_document_id, chunks, storage, vectors, lexical,
                   deleting>>

\* document.storage_path (reloads the expired row) and storage.download_file.
Fetch(r) ==
    LET d == runs[r].document_id IN
    /\ runs[r].pc = "fetch"
    /\ IF ~Exists(d)
       THEN SetRun(r, Raise(r, "fetch", "Instance has been deleted"))
       ELSE IF d \notin DOMAIN storage
       THEN SetRun(r, Raise(r, "fetch", "S3 operation failed; code: NoSuchKey"))
       ELSE SetRun(r, [runs[r] EXCEPT !.pc = "extract", !.file_bytes = storage[d]])
    /\ UNCHANGED <<documents, next_document_id, chunks, storage, vectors,
                   lexical, deleting>>

\* pdf_parser.extract_text / extract_text_by_page, the page count, and
\* chunking.chunk_with_page_info of the singleton ChunkingService().
Extract(r) ==
    LET file_bytes == runs[r].file_bytes IN
    /\ runs[r].pc = "extract"
    /\ IF ~file_bytes.valid
       THEN SetRun(r, Raise(r, "extract", file_bytes.error))
       ELSE SetRun(r, [runs[r] EXCEPT
                !.pc = "embed",
                !.page_count = extract_page_count(file_bytes),
                !.chunks_data =
                    chunk_with_page_info(extract_text_by_page(file_bytes), 0, 0)])
    /\ UNCHANGED <<documents, next_document_id, chunks, storage, vectors,
                   lexical, deleting>>

ChunkTexts(chunks_data) == [i \in 1..Len(chunks_data) |-> chunks_data[i].text]

\* Mutant: a failure of the model call is swallowed and the vectors computed
\* before it are used.
Embed_swallows_failure(r) ==
    LET texts == ChunkTexts(runs[r].chunks_data) IN
    /\ runs[r].pc = "embed"
    /\ \/ SetRun(r, [runs[r] EXCEPT !.pc = "persist",
                                     !.embeddings_list = encode_batch(texts)])
       \/ SetRun(r, [runs[r] EXCEPT
                !.pc = "persist",
                !.failed_at = "embed",
                !.embeddings_list =
                    encode_batch(SubSeq(texts, 1, Len(texts) - 1))])
    /\ UNCHANGED <<documents, next_document_id, chunks, storage, vectors,
                   lexical, deleting>>

\* embeddings.encode_batch over all chunk texts: the vectors, or an exception.
Embed(r) ==
    /\ runs[r].pc = "embed"
    /\ \/ SetRun(r, [runs[r] EXCEPT
                !.pc = "persist",
                !.embeddings_list = encode_batch(ChunkTexts(runs[r].chunks_data))])
       \/ SetRun(r, Raise(r, "embed", "embedding model failed"))
    /\ UNCHANGED <<documents, next_document_id, chunks, storage, vectors,
                   lexical, deleting>>

Min(a, b) == IF a < b THEN a ELSE b

\* The Chunk objects built in the loop over zip(chunks_data, embeddings_list).
NewChunkRecords(chunks_data, embeddings_list) ==
    [i \in 1..Min(Len(chunks_data), Len(embeddings_list)) |->
        [id |-> NoKey,
         chunk_index |-> chunks_data[i].chunk_index,
         text |-> chunks_data[i].text,
         token_count |-> chunks_data[i].token_count,
         page_number |-> chunks_data[i].page_number,
         vector_id |-> NoKey,
         search_id |-> NoKey]]

NewVectorPayloads(document_id, chunks_data, embeddings_list) ==
    [i \in 1..Min(Len(chunks_data), Len(embeddings_list)) |->
        [chunk_id |-> NoKey,
         document_id |-> document_id,
         text |-> chunks_data[i].text,
         page_number |-> chunks_data[i].page_number]]

NewSearchDocs(document_id, chunks_data, embeddings_list) ==
    [i \in 1..Min(Len(chunks_data), Len(embeddings_list)) |->
        [chunk_id |-> NoKey,
         document_id |-> document_id,
         text |-> chunks_data[i].text,
         page_number |-> chunks_data[i].page_number,
         chunk_index |-> chunks_data[i].chunk_index]]

\* db.flush(): the INSERTs run and every Chunk object gets its id.
FlushIds(chunk_records, r) ==
    [i \in 1..Len(chunk_records) |->
        [chunk_records[i] EXCEPT !.id = ChunkId(r, i)]]

\* Mutant: the payloads keep the placeholder they were built with.
PayloadsWithIds_stale(payloads, chunk_records) == payloads

\* payload[i]["chunk_id"] = chunk_record.id
PayloadsWithIds(payloads, chunk_records) ==
    [i \in 1..Len(payloads) |->
        [payloads[i] EXCEPT !.chunk_id = chunk_records[i].id]]

\* Build the records and payloads, db.add_all, db.flush, copy the ids into
\* the payloads. The flush fails when the document row is gone, and may
\* fail for a database error.
Persist(r) ==
    LET d == runs[r].document_id
        records == NewChunkRecords(runs[r].chunks_data, runs[r].embeddings_list)
        payloads == NewVectorPayloads(d, runs[r].chunks_data,
                                      runs[r].embeddings_list)
        docs == NewSearchDocs(d, runs[r].chunks_data, runs[r].embeddings_list)
        flushed == FlushIds(records, r)
    IN
    /\ runs[r].pc = "persist"
    /\ \/ /\ Exists(d)
          /\ SetRun(r, [runs[r] EXCEPT
                !.pc = "vectors",
                !.flushed = TRUE,
                !.chunk_records = flushed,
                !.vector_payloads = PayloadsWithIds(payloads, flushed),
                !.search_docs = PayloadsWithIds(docs, flushed)])
       \/ /\ SetRun(r, [Raise(r, "persist", "flush failed") EXCEPT
                !.session_failed = TRUE,
                !.chunk_records = records,
                !.vector_payloads = payloads,
                !.search_docs = docs])
    /\ UNCHANGED <<documents, next_document_id, chunks, storage, vectors,
                   lexical, deleting>>

\* str(uuid.uuid4()) for each vector: fresh keys, in order.
NewVectorIds(n, r) == [i \in 1..n |-> VectorId(r, i)]

\* Mutant: add_vectors skips the upsert when the collection already holds
\* points of the document.
Points_skips_indexed_document(vector_ids, embeddings_list, payloads) ==
    {pt \in {[id |-> vector_ids[i],
              vector |-> embeddings_list[i],
              chunk_id |-> payloads[i].chunk_id,
              document_id |-> payloads[i].document_id,
              text |-> payloads[i].text,
              page_number |-> payloads[i].page_number] :
                i \in 1..Min(Len(vector_ids), Len(payloads))} :
        ~\E p \in vectors : p.document_id = pt.document_id}

\* The PointStructs upserted by VectorDBService.add_vectors.
Points(vector_ids, embeddings_list, payloads) ==
    {[id |-> vector_ids[i],
      vector |-> embeddings_list[i],
      chunk_id |-> payloads[i].chunk_id,
      document_id |-> payloads[i].document_id,
      text |-> payloads[i].text,
      page_number |-> payloads[i].page_number] :
        i \in 1..Min(Len(vector_ids), Len(payloads))}

\* Mutant: the returned keys are paired with the records in reverse order.
WithVectorIds_reversed(chunk_records, vector_ids) ==
    [i \in 1..Len(chunk_records) |->
        IF i <= Len(vector_ids)
        THEN [chunk_records[i] EXCEPT
                !.vector_id = vector_ids[Len(vector_ids) + 1 - i]]
        ELSE chunk_records[i]]

\* for chunk_record, vector_id in zip(...): chunk_record.vector_id = vector_id
WithVectorIds(chunk_records, vector_ids) ==
    [i \in 1..Len(chunk_records) |->
        IF i <= Len(vector_ids)
        THEN [chunk_records[i] EXCEPT !.vector_id = vector_ids[i]]
        ELSE chunk_records[i]]

\* vector_db.add_vectors and the copy of the returned keys onto the records;
\* or the collaborator raises and nothing is upserted.
AddVectors(r) ==
    LET vector_ids == NewVectorIds(Len(runs[r].embeddings_list), r) IN
    /\ runs[r].pc = "vectors"
    /\ \/ /\ Len(runs[r].embeddings_list) = Len(runs[r].vector_payloads)
          /\ vectors' = vectors \cup Points(vector_ids, runs[r].embeddings_list,
                                            runs[r].vector_payloads)
          /\ SetRun(r, [runs[r] EXCEPT
                !.pc = "lexical",
                !.vector_ids = vector_ids,
                !.chunk_records = WithVectorIds(runs[r].chunk_records, vector_ids)])
       \/ /\ SetRun(r, Raise(r, "vectors", "vector index rejected the upsert"))
          /\ UNCHANGED vectors
    /\ UNCHANGED <<documents, next_document_id, chunks, storage, lexical,
                   deleting>>

\* The keys SearchService.index_chunk returned for fragments 1..upto.
NewSearchIds(upto, r) == [i \in 1..upto |-> SearchId(r, i)]

\* The documents SearchService.index_chunk sent for fragments 1..upto.
IndexedDocs(search_docs, search_ids) ==
    {[id |-> search_ids[i],
      chunk_id |-> search_docs[i].chunk_id,
      document_id |-> search_docs[i].document_id,
      text |-> search_docs[i].text,
      page_number |-> search_docs[i].page_number,
      chunk_index |-> search_docs[i].chunk_index] :
        i \in 1..Len(search_ids)}

\* chunk_record.search_id = search_id, for the fragments indexed so far
WithSearchIds(chunk_records, search_ids) ==
    [i \in 1..Len(chunk_records) |->
        IF i <= Len(search_ids)
        THEN [chunk_records[i] EXCEPT !.search_id = search_ids[i]]
        ELSE chunk_records[i]]

\* The loop of search_engine.index_chunk calls: it indexes the fragments in
\* order and either reaches the end or is stopped at fragment j by an
\* exception of the collaborator.
IndexChunks(r) ==
    LET n == Len(runs[r].chunk_records) IN
    /\ runs[r].pc = "lexical"
    /\ \E j \in 1..(n + 1) :
          LET search_ids == NewSearchIds(j - 1, r)
              indexed == WithSearchIds(runs[r].chunk_records, search_ids)
          IN /\ lexical' = lexical \cup IndexedDocs(runs[r].search_docs, search_ids)
             /\ IF j = n + 1
                THEN SetRun(r, [runs[r] EXCEPT !.pc = "complete",
                                               !.search_ids = search_ids,
                                               !.chunk_records = indexed])
                ELSE SetRun(r, [Raise(r, "lexical", "lexical index rejected the write")
                                    EXCEPT !.search_ids = search_ids,
                                           !.chunk_records = indexed])
    /\ UNCHANGED <<documents, next_document_id, chunks, storage, vectors,
                   deleting>>

\* Mutant: the workers share one session, so a commit writes the flushed
\* chunk records of every run.
ChunkRows_shared_session(r) ==
    UNION {IF runs[q].flushed
           THEN {[id |-> rec.id,
                  document_id |-> runs[q].document_id,
                  chunk_index |-> rec.chunk_index,
                  text |-> rec.text,
                  token_count |-> rec.token_count,
                  page_number |-> rec.page_number,
                  vector_id |-> rec.vector_id,
                  search_id |-> rec.search_id] :
                    rec \in {runs[q].chunk_records[i] :
                                i \in 1..Len(runs[q].chunk_records)}}
           ELSE {} : q \in DOMAIN runs}

\* The chunk rows a commit of the run's session writes.
ChunkRows(r) ==
    IF runs[r].flushed
    THEN {[id |-> rec.id,
           document_id |-> runs[r].document_id,
           chunk_index |-> rec.chunk_index,
           text |-> rec.text,
           token_count |-> rec.token_count,
           page_number |-> rec.page_number,
           vector_id |-> rec.vector_id,
           search_id |-> rec.search_id] : rec \in {runs[r].chunk_records[i] :
                                   i \in 1..Len(runs[r].chunk_records)}}
    ELSE {}

\* The document row with the attributes the session holds pending.
WithPending(row, r) ==
    IF runs[r].page_count # None
    THEN [row EXCEPT !.page_count = runs[r].page_count]
    ELSE row

\* document.status = COMPLETED, chunk_count, db.commit(), return success.
Complete(r) ==
    LET d == runs[r].document_id IN
    /\ runs[r].pc = "complete"
    /\ documents' = [documents EXCEPT ![d] =
            [WithPending(documents[d], r) EXCEPT
                !.status = COMPLETED,
                !.chunk_count = Len(runs[r].chunk_records)]]
    /\ chunks' = chunks \cup ChunkRows(r)
    /\ SetRun(r, [runs[r] EXCEPT !.pc = "done", !.flushed = FALSE,
                                 !.result = "success"])
    /\ UNCHANGED <<next_document_id, storage, vectors, lexical, deleting>>

\* The status the except clause writes.
ErrorStatus == FAILED

\* Mutant: the except clause stores a fixed text.
ErrorMessage_generic(r) == "Processing failed"

\* The message the except clause stores.
ErrorMessage(r) == runs[r].error

\* Mutant: the except clause compensates, deleting what the run had written
\* to the two indexes.
HandleError_compensates(r) ==
    LET d == runs[r].document_id IN
    /\ runs[r].pc = "except"
    /\ IF runs[r].session_failed
       THEN /\ SetRun(r, [runs[r] EXCEPT !.pc = "raised", !.flushed = FALSE,
                                         !.result = "raised"])
            /\ UNCHANGED <<documents, chunks>>
       ELSE IF ~Exists(d)
       THEN /\ SetRun(r, [runs[r] EXCEPT !.pc = "done", !.flushed = FALSE,
                                         !.result = "error"])
            /\ UNCHANGED <<documents, chunks>>
       ELSE /\ documents' = [documents EXCEPT ![d] =
                    [WithPending(documents[d], r) EXCEPT
                        !.status = ErrorStatus,
                        !.error_message = ErrorMessage(r)]]
            /\ chunks' = chunks \cup ChunkRows(r)
            /\ SetRun(r, [runs[r] EXCEPT !.pc = "done", !.flushed = FALSE,
                                         !.result = "error"])
    /\ vectors' = {p \in vectors : RunOf(p.id) # r}
    /\ lexical' = {e \in lexical : RunOf(e.id) # r}
    /\ UNCHANGED <<next_document_id, storage, deleting>>

\* The except clause: re-query the document on the same session; when found,
\* mark it failed with str(e) and commit. The session is not rolled back
\* first: after a failed flush the query itself raises and the exception
\* leaves the task; otherwise the commit also writes what the session had
\* flushed. The finally clause closes the session.
HandleError(r) ==
    LET d == runs[r].document_id IN
    /\ runs[r].pc = "except"
    /\ IF runs[r].session_failed
       THEN /\ SetRun(r, [runs[r] EXCEPT !.pc = "raised", !.flushed = FALSE,
                                         !.result = "raised"])
            /\ UNCHANGED <<documents, chunks>>
       ELSE IF ~Exists(d)
       THEN /\ SetRun(r, [runs[r] EXCEPT !.pc = "done", !.flushed = FALSE,
                                         !.result = "error"])
            /\ UNCHANGED <<documents, chunks>>
       ELSE /\ documents' = [documents EXCEPT ![d] =
                    [WithPending(documents[d], r) EXCEPT
                        !.status = ErrorStatus,
                        !.error_message = ErrorMessage(r)]]
            /\ chunks' = chunks \cup ChunkRows(r)
            /\ SetRun(r, [runs[r] EXCEPT !.pc = "done", !.flushed = FALSE,
                                         !.result = "error"])
    /\ UNCHANGED <<next_document_id, storage, vectors, lexical, deleting>>

\* ---------------------------------------------------------- specification

Next ==
    \/ \E file \in Files : upload_document(file) /\ UNCHANGED fragmenter_vars
    \/ \E d \in DocIds : process(d) /\ UNCHANGED fragmenter_vars
    \/ \E d \in DocIds : delete_document_stores(d) /\ UNCHANGED fragmenter_vars
    \/ \E d \in DocIds : delete_document_commit(d) /\ UNCHANGED fragmenter_vars
    \/ \E r \in DOMAIN runs : Begin(r) /\ UNCHANGED fragmenter_vars
    \/ \E r \in DOMAIN runs : Fetch(r) /\ UNCHANGED fragmenter_vars
    \/ \E r \in DOMAIN runs : Extract(r) /\ UNCHANGED fragmenter_vars
    \/ \E r \in DOMAIN runs : Embed(r) /\ UNCHANGED fragmenter_vars
    \/ \E r \in DOMAIN runs : Persist(r) /\ UNCHANGED fragmenter_vars
    \/ \E r \in DOMAIN runs : AddVectors(r) /\ UNCHANGED fragmenter_vars
    \/ \E r \in DOMAIN runs : IndexChunks(r) /\ UNCHANGED fragmenter_vars
    \/ \E r \in DOMAIN runs : Complete(r) /\ UNCHANGED fragmenter_vars
    \/ \E r \in DOMAIN runs : HandleError(r) /\ UNCHANGED fragmenter_vars

Spec == Init /\ [][Next]_vars

\* ------------------------------------------------- the HTTP API on its own
\*
\* The operations the API offers, upload, search and delete, and the steps of
\* the tasks they cause; nobody else sends tasks.process_document.

\* POST /api/search with no filter: the handler reads the two indexes and
\* writes nothing.  What it read is kept as the hits each source holds; their
\* scoring is the engines' and is left open.
search_request ==
    /\ returned' = [done |-> TRUE, chunks |-> <<>>,
                    vector_results |-> {p.chunk_id : p \in vectors},
                    keyword_results |-> {e.chunk_id : e \in lexical}]
    /\ UNCHANGED <<call, pipeline_vars>>

ApiNext ==
    \/ \E file \in Files : upload_document(file) /\ UNCHANGED fragmenter_vars
    \/ search_request
    \/ \E d \in DocIds : delete_document_stores(d) /\ UNCHANGED fragmenter_vars
    \/ \E d \in DocIds : delete_document_commit(d) /\ UNCHANGED fragmenter_vars
    \/ \E r \in DOMAIN runs : Begin(r) /\ UNCHANGED fragmenter_vars
    \/ \E r \in DOMAIN runs : Fetch(r) /\ UNCHANGED fragmenter_vars
    \/ \E r \in DOMAIN runs : Extract(r) /\ UNCHANGED fragmenter_vars
    \/ \E r \in DOMAIN runs : Embed(r) /\ UNCHANGED fragmenter_vars
    \/ \E r \in DOMAIN runs : Persist(r) /\ UNCHANGED fragmenter_vars
    \/ \E r \in DOMAIN runs : AddVectors(r) /\ UNCHANGED fragmenter_vars
    \/ \E r \in DOMAIN runs : IndexChunks(r) /\ UNCHANGED fragmenter_vars
    \/ \E r \in DOMAIN runs : Complete(r) /\ UNCHANGED fragmenter_vars
    \/ \E r \in DOMAIN runs : HandleError(r) /\ UNCHANGED fragmenter_vars

ApiSpec == Init /\ [][ApiNext]_vars

\* ------------------------------------------ the ChunkingService on its own

\* A ChunkingService(chunk_size, overlap) is constructed and one of its two
\* methods is called once, on a text or on a list of pages.
Alphabet == {"a", ".", " "}
Texts == UNION {[1..n -> Alphabet] : n \in 0..MaxTextLen}

PageLong == <<"a", ".", " ", "a", " ", "a", ".", " ", "a">>
PageSpaced == <<" ", "a", ".", " ">>
PageTexts == {PageBlank, PageTwo, PageOne, PageLong, PageSpaced}

\* The page dicts of extract_text_by_page for the given page texts.
PagesOf(texts) == [p \in 1..Len(texts) |-> [page_number |-> p, text |-> texts[p]]]
PageLists == UNION {[1..n -> PageTexts] : n \in 0..MaxPages}

ChunkSizeArgs == 0..MaxChunkSize
OverlapArgs == 0..MaxOverlap

TextCalls ==
    {[method |-> "chunk_text", text |-> t, pages |-> <<>>, chunk_size |-> c,
      overlap |-> o] : t \in Texts, c \in ChunkSizeArgs, o \in OverlapArgs}
PageCalls ==
    {[method |-> "chunk_with_page_info", text |-> <<>>, pages |-> PagesOf(l),
      chunk_size |-> c, overlap |-> o] :
        l \in PageLists, c \in ChunkSizeArgs, o \in OverlapArgs}

FragInit ==
    /\ documents = <<>>
    /\ next_document_id = 1
    /\ chunks = {}
    /\ storage = <<>>
    /\ vectors = {}
    /\ lexical = {}
    /\ runs = <<>>
    /\ deleting = {}
    /\ call \in TextCalls \cup PageCalls
    /\ returned = NotReturned

CallChunkText ==
    /\ call.method = "chunk_text"
    /\ ~returned.done
    /\ returned' = [done |-> TRUE,
                    chunks |-> chunk_text(call.text, call.chunk_size, call.overlap)]
    /\ UNCHANGED <<call, pipeline_vars>>

CallChunkWithPageInfo ==
    /\ call.method = "chunk_with_page_info"
    /\ ~returned.done
    /\ returned' = [done |-> TRUE,
                    chunks |-> chunk_with_page_info(call.pages, call.chunk_size,
                                                    call.overlap)]
    /\ UNCHANGED <<call, pipeline_vars>>

FragNext == CallChunkText \/ CallChunkWithPageInfo

FragSpec == FragInit /\ [][FragNext]_vars

\* ------------------------------------------------- HybridSearchService
\*
\* Scores.  A raw score of a source is a whole number of score units, one
\* unit being half of the 1e-10 of _normalize_scores; a normalized, weighted
\* or combined score is an exact fraction <<numerator, denominator>> with a
\* positive denominator.

\* The 1e-10 of _normalize_scores, in score units.
Threshold == 2

Zero == <<0, 1>>

One == <<1, 1>>

RatLess(a, b) == a[1] * b[2] < b[1] * a[2]

RatEq(a, b) == a[1] * b[2] = b[1] * a[2]

RatAdd(a, b) == <<a[1] * b[2] + b[1] * a[2], a[2] * b[2]>>

RatMul(a, b) == <<a[1] * b[1], a[2] * b[2]>>

\* request.hybrid_weight, given in tenths.
Weight(tenths) == <<tenths, 10>>

\* keyword_weight = 1.0 - vector_weight
KeywordWeight(tenths) == <<10 - tenths, 10>>

MinScore(results) == CHOOSE s \in {results[i].score : i \in DOMAIN results} : \A i \in DOMAIN results : s <= results[i].score

MaxScore(results) == CHOOSE s \in {results[i].score : i \in DOMAIN results} : \A i \in DOMAIN results : s >= results[i].score

\* Mutant: the degenerate case also takes a range of exactly 1e-10.
Degenerate_at_threshold(min_score, max_score) == max_score - min_score <= Threshold

\* if max_score - min_score < 1e-10
Degenerate(min_score, max_score) == max_score - min_score < Threshold

\* HybridSearchService._normalize_scores: min-max scaling.  The loop assigns
\* result["score"] in the dictionaries of the list it was given and returns
\* that list, so the value is both the result and the argument afterwards.
_normalize_scores(results) ==
    IF results = <<>> THEN results
    ELSE LET min_score == MinScore(results)
             max_score == MaxScore(results)
         IN IF Degenerate(min_score, max_score)
            THEN [i \in DOMAIN results |-> [results[i] EXCEPT !.score = One]]
            ELSE [i \in DOMAIN results |->
                    [results[i] EXCEPT
                       !.score = <<results[i].score - min_score,
                                   max_score - min_score>>]]

\* The position of a key in the results_map dictionary, 0 when absent
\* (a dictionary keeps its keys in insertion order).
KeyIndex(results_map, chunk_id) ==
    IF \E i \in DOMAIN results_map : results_map[i].chunk_id = chunk_id
    THEN CHOOSE i \in DOMAIN results_map : results_map[i].chunk_id = chunk_id
    ELSE 0

\* results_map[key] = value: an existing key keeps its position.
SetKey(results_map, entry) ==
    LET k == KeyIndex(results_map, entry.chunk_id)
    IN IF k = 0 THEN Append(results_map, entry)
       ELSE [results_map EXCEPT ![k] = entry]

\* The value None of result.get("highlighted").
NoHighlight == <<>>

\* The payload without chunk_id, document_id and text.
PayloadMetadata(payload) == [page_number |-> payload.page_number]

VectorEntry(result) ==
    [chunk_id |-> result.payload.chunk_id,
     document_id |-> result.payload.document_id,
     text |-> result.payload.text,
     vector_score |-> result.score,
     keyword_score |-> Zero,
     highlighted |-> NoHighlight,
     metadata |-> PayloadMetadata(result.payload)]

KeywordEntry(result) ==
    [chunk_id |-> result.chunk_id,
     document_id |-> result.document_id,
     text |-> result.text,
     vector_score |-> Zero,
     keyword_score |-> result.score,
     highlighted |-> result.highlighted,
     metadata |-> result.metadata]

RECURSIVE AddVectorResults(_, _, _)
\* for result in vector_results: results_map[chunk_id] = {...}
AddVectorResults(vector_results, i, results_map) ==
    IF i > Len(vector_results) THEN results_map
    ELSE AddVectorResults(vector_results, i + 1,
                          SetKey(results_map, VectorEntry(vector_results[i])))

\* Mutant: a fragment both sources returned keeps the keyword entry only.
MergeKeyword_replaces(entry, result) == KeywordEntry(result)

\* if chunk_id in results_map: set keyword_score and highlighted.
MergeKeyword(entry, result) == [entry EXCEPT !.keyword_score = result.score, !.highlighted = result.highlighted]

RECURSIVE AddKeywordResults(_, _, _)
\* for result in keyword_results: update the entry or add a new one.
AddKeywordResults(keyword_results, i, results_map) ==
    IF i > Len(keyword_results) THEN results_map
    ELSE LET result == keyword_results[i]
             k == KeyIndex(results_map, result.chunk_id)
         IN AddKeywordResults(keyword_results, i + 1,
               IF k > 0
               THEN [results_map EXCEPT ![k] = MergeKeyword(results_map[k], result)]
               ELSE Append(results_map, KeywordEntry(result)))

\* Mutant: both scores are weighted by vector_weight.
CombinedScore_one_weight(vector_score, keyword_score, vector_weight) == RatAdd(RatMul(vector_score, Weight(vector_weight)), RatMul(keyword_score, Weight(vector_weight)))

\* result["vector_score"] * vector_weight + result["keyword_score"] * keyword_weight
CombinedScore(vector_score, keyword_score, vector_weight) == RatAdd(RatMul(vector_score, Weight(vector_weight)), RatMul(keyword_score, KeywordWeight(vector_weight)))

\* combined.append({...}) for one entry of results_map.
CombinedResult(entry, vector_weight) ==
    [chunk_id |-> entry.chunk_id,
     document_id |-> entry.document_id,
     text |-> entry.text,
     score |-> CombinedScore(entry.vector_score, entry.keyword_score,
                             vector_weight),
     vector_score |-> entry.vector_score,
     keyword_score |-> entry.keyword_score,
     highlighted_text |-> entry.highlighted,
     page_number |-> entry.metadata.page_number]

\* HybridSearchService._combine_results: the value it returns.
_combine_results(vector_results, keyword_results, vector_weight) ==
    LET vector_normalized == _normalize_scores(vector_results)
        keyword_normalized == _normalize_scores(keyword_results)
        results_map == AddKeywordResults(keyword_normalized, 1,
                          AddVectorResults(vector_normalized, 1, <<>>))
    IN [i \in DOMAIN results_map |->
          CombinedResult(results_map[i], vector_weight)]

\* Mutant: an ascending sort that is reversed afterwards.
InsertByScore_reversed(sorted, result) ==
    LET ahead == {i \in DOMAIN sorted : RatLess(result.score, sorted[i].score)}
        k == IF ahead = {} THEN 0 ELSE CHOOSE i \in ahead : \A j \in ahead : j <= i
    IN SubSeq(sorted, 1, k) \o <<result>> \o SubSeq(sorted, k + 1, Len(sorted))

\* Where list.sort(key=score, reverse=True) puts one more element: behind
\* every element whose score is not smaller (the sort is stable).
InsertByScore(sorted, result) ==
    LET ahead == {i \in DOMAIN sorted : ~RatLess(sorted[i].score, result.score)}
        k == IF ahead = {} THEN 0 ELSE CHOOSE i \in ahead : \A j \in ahead : j <= i
    IN SubSeq(sorted, 1, k) \o <<result>> \o SubSeq(sorted, k + 1, Len(sorted))

RECURSIVE SortByScore(_, _, _)
\* combined.sort(key=lambda x: x["score"], reverse=True)
SortByScore(combined, i, sorted) ==
    IF i > Len(combined) THEN sorted
    ELSE SortByScore(combined, i + 1, InsertByScore(sorted, combined[i]))

\* seq[:n]
Take(seq, n) == SubSeq(seq, 1, IF n < Len(seq) THEN n ELSE Len(seq))

\* seq[from:to]
Slice(seq, from, to) == SubSeq(seq, from + 1, IF to < Len(seq) THEN to ELSE Len(seq))

\* The limit search passes to each source: limit * 2.
SourceLimit(limit) == limit * 2

\* HybridSearchService.search over the two sources, each given as the full
\* ranking it holds for the query; a source returns the first `limit` hits.
search(vector_index, keyword_index, limit, vector_weight) ==
    LET vector_results == Take(vector_index, SourceLimit(limit))
        keyword_results == Take(keyword_index, SourceLimit(limit))
        combined == _combine_results(vector_results, keyword_results,
                                     vector_weight)
    IN Take(SortByScore(combined, 1, <<>>), limit)

\* Mutant: the offset is left out of the limit given to the fuser.
SearchLimit_page_only(limit, offset) == limit

\* limit=request.limit + request.offset
SearchLimit(limit, offset) == limit + offset

\* api/search.py search_documents: the results of the response.
search_documents(vector_index, keyword_index, limit, offset, hybrid_weight) ==
    Slice(search(vector_index, keyword_index, SearchLimit(limit, offset),
                 hybrid_weight),
          offset, offset + limit)

\* EmbeddingService.similarity.  The cosine of two vectors of whole numbers
\* is kept as the dot product and the product of the squared norms; a zero
\* norm makes the division 0.0 / 0.0, which numpy evaluates to nan (with a
\* RuntimeWarning, no exception), and float() passes nan on.
NaN == "nan"

Dot(vec1, vec2) == vec1[1] * vec2[1] + vec1[2] * vec2[2]

similarity(embedding1, embedding2) ==
    LET norms_squared == Dot(embedding1, embedding1) * Dot(embedding2, embedding2)
    IN [raised |-> FALSE,
        value |-> IF norms_squared = 0 THEN NaN
                  ELSE [dot |-> Dot(embedding1, embedding2),
                        norms_squared |-> norms_squared]]

\* ------------------------------------- the fuser and search called directly

MaxHits == 2

MaxLimit == 2

MaxOffset == 2

ChunkIdValues == {1, 2, 3}

ScoreValues == {0, 1, 2, 4}

WeightValues == {0, 5, 7, 10}

Coordinates == {0 - 1, 0, 1}

\* The text, highlight and page of the fragment behind a hit.
HitText(chunk_id) == <<"text", chunk_id>>

HitHighlight(chunk_id) == <<"em", chunk_id>>

\* One hit of VectorDBService.search.
VectorHit(chunk_id, score) ==
    [id |-> <<"point", chunk_id>>,
     score |-> score,
     payload |-> [chunk_id |-> chunk_id, document_id |-> 1,
                  text |-> HitText(chunk_id), page_number |-> chunk_id]]

\* One hit of SearchEngineService.search.
KeywordHit(chunk_id, score) ==
    [es_id |-> <<"es", chunk_id>>,
     score |-> score,
     chunk_id |-> chunk_id,
     document_id |-> 1,
     text |-> HitText(chunk_id),
     highlighted |-> HitHighlight(chunk_id),
     metadata |-> [page_number |-> chunk_id]]

\* The rankings a source can hold: up to n hits, a fragment at most once.
Rankings(n) ==
    UNION {{ranking \in [1..len -> ChunkIdValues \X ScoreValues] :
              \A i, j \in 1..len : ranking[i][1] = ranking[j][1] => i = j} :
           len \in 0..n}

VectorHits(ranking) == [i \in DOMAIN ranking |-> VectorHit(ranking[i][1], ranking[i][2])]

KeywordHits(ranking) == [i \in DOMAIN ranking |-> KeywordHit(ranking[i][1], ranking[i][2])]

\* The arguments of a direct call.
NormalizeCall(r) == [method |-> "_normalize_scores", results |-> VectorHits(r)]

CombineCall(v, k, w) == [method |-> "_combine_results", vector_results |-> VectorHits(v), keyword_results |-> KeywordHits(k), vector_weight |-> w]

SearchCall(v, k, l, w) == [method |-> "search", vector_index |-> VectorHits(v), keyword_index |-> KeywordHits(k), limit |-> l, vector_weight |-> w]

SearchDocumentsCall(v, k, l, o) == [method |-> "search_documents", vector_index |-> VectorHits(v), keyword_index |-> KeywordHits(k), limit |-> l, offset |-> o, hybrid_weight |-> 7]

SimilarityCall(a, b) == [method |-> "similarity", embedding1 |-> a, embedding2 |-> b]

\* The calls made: every ranking of up to MaxHits hits for each source (one
\* more where a source's own limit is to cut its ranking), every weight,
\* limit and offset of the sets above.
FuseCalled ==
    \/ \E r \in Rankings(MaxHits + 1) : call = NormalizeCall(r)
    \/ \E v, k \in Rankings(MaxHits) :
          \/ \E w \in WeightValues : call = CombineCall(v, k, w)
          \/ \E l \in 1..(MaxLimit + MaxOffset), w \in WeightValues : call = SearchCall(v, k, l, w)
    \/ \E v \in Rankings(MaxHits + 1), k \in Rankings(MaxHits), l \in 1..MaxLimit, o \in 0..MaxOffset : call = SearchDocumentsCall(v, k, l, o)
    \/ \E a, b \in Coordinates \X Coordinates : call = SimilarityCall(a, b)

FuseInit ==
    /\ documents = <<>>
    /\ next_document_id = 1
    /\ chunks = {}
    /\ storage = <<>>
    /\ vectors = {}
    /\ lexical = {}
    /\ runs = <<>>
    /\ deleting = {}
    /\ FuseCalled
    /\ returned = NotReturned

\* A call of _normalize_scores: its value, and the list it was given as the
\* caller holds it afterwards.
CallNormalizeScores ==
    /\ call.method = "_normalize_scores"
    /\ ~returned.done
    /\ returned' = [done |-> TRUE,
                    results |-> _normalize_scores(call.results),
                    argument |-> _normalize_scores(call.results)]
    /\ UNCHANGED <<call, pipeline_vars>>

\* A call of _combine_results: its value, and the two lists it was given as
\* the caller holds them afterwards.
CallCombineResults ==
    /\ call.method = "_combine_results"
    /\ ~returned.done
    /\ returned' = [done |-> TRUE,
                    results |-> _combine_results(call.vector_results,
                                                 call.keyword_results,
                                                 call.vector_weight),
                    vector_results |-> _normalize_scores(call.vector_results),
                    keyword_results |-> _normalize_scores(call.keyword_results)]
    /\ UNCHANGED <<call, pipeline_vars>>

CallSearch ==
    /\ call.method = "search"
    /\ ~returned.done
    /\ returned' = [done |-> TRUE,
                    results |-> search(call.vector_index, call.keyword_index,
                                       call.limit, call.vector_weight),
                    source_limit |-> SourceLimit(call.limit)]
    /\ UNCHANGED <<call, pipeline_vars>>

CallSearchDocuments ==
    /\ call.method = "search_documents"
    /\ ~returned.done
    /\ returned' = [done |-> TRUE,
                    results |-> search_documents(call.vector_index,
                                                 call.keyword_index,
                                                 call.limit, call.offset,
                                                 call.hybrid_weight),
                    source_limit |-> SourceLimit(SearchLimit(call.limit,
                                                             call.offset))]
    /\ UNCHANGED <<call, pipeline_vars>>

CallSimilarity ==
    /\ call.method = "similarity"
    /\ ~returned.done
    /\ returned' = [done |-> TRUE] @@ similarity(call.embedding1, call.embedding2)
    /\ UNCHANGED <<call, pipeline_vars>>

FuseNext == CallNormalizeScores \/ CallCombineResults \/ CallSearch \/ CallSearchDocuments \/ CallSimilarity

FuseSpec == FuseInit /\ [][FuseNext]_vars

\* ---------------------------------------------------------------- claims

DocOf(r) == runs[r].document_id

\* The step is the task invocation r leaving the try/except: it returns or
\* an exception leaves it.
Terminates(r) == runs[r].pc \in Active /\ runs'[r].pc \in Terminated

\* The step is the except clause of r running.
ExceptClauseRuns(r) == runs[r].pc = "except" /\ runs'[r].pc \in Terminated

\* What task invocation r has in the three stores.
RowsOf(r, rows) == {c \in rows : RunOf(c.id) = r}

ForwardTransitions ==
    {<<PENDING, PROCESSING>>, <<PROCESSING, COMPLETED>>, <<PROCESSING, FAILED>>}

\* C1: the only status changes of a document are pending->processing,
\* processing->completed and processing->failed; completed and failed are
\* terminal, whatever operation is invoked afterwards.
C1_OnlyForwardTransitions ==
    [][\A d \in DOMAIN documents \cap DOMAIN documents' :
          documents'[d].status # documents[d].status =>
              <<documents[d].status, documents'[d].status>> \in ForwardTransitions
      ]_vars

\* C2: a run that has set its (still existing) document to processing
\* terminates with the document completed or failed, whichever step raised;
\* no terminated run leaves the document in processing.
C2_TerminatedRunLeavesNoProcessing ==
    [][\A r \in DOMAIN runs :
          (runs[r].began /\ Terminates(r) /\ DocOf(r) \in DOMAIN documents') =>
              documents'[DocOf(r)].status \in {COMPLETED, FAILED}
      ]_vars

\* C3: every committed chunk row has both its vector key and its lexical key
\* assigned, whatever step of a run failed.
C3_CommittedChunksHaveBothKeys ==
    \A c \in chunks : c.vector_id # NoKey /\ c.search_id # NoKey

\* C4: when text extraction raises, the except clause leaves the document
\* failed with exactly the message the parser raised, and the run has created
\* no fragment record.
C4_ExtractionFailure ==
    [][\A r \in DOMAIN runs :
          (ExceptClauseRuns(r) /\ runs[r].failed_at = "extract") =>
              /\ DocOf(r) \in DOMAIN documents' =>
                    /\ documents'[DocOf(r)].status = FAILED
                    /\ documents'[DocOf(r)].error_message = runs[r].file_bytes.error
              /\ runs'[r].chunk_records = <<>>
              /\ chunks' = chunks
              /\ RowsOf(r, chunks') = {}
      ]_vars

C4_Witness ==
    \E r \in DOMAIN runs :
        /\ runs[r].pc = "done"
        /\ runs[r].failed_at = "extract"
        /\ Exists(DocOf(r))
        /\ documents[DocOf(r)].status = FAILED
        /\ documents[DocOf(r)].error_message = FileBroken.error

\* C5: every payload in the vector index and every document in the lexical
\* index carries a non-null chunk_id, which is the flushed id of the fragment
\* record of the same run that has the same text (and chunk_index) and that
\* got the entry's key; so no payload was handed over before the flush.
C5_PayloadsCarryChunkIds ==
    /\ \A p \in vectors :
          /\ p.chunk_id # NoKey
          /\ \E i \in DOMAIN runs[RunOf(p.id)].chunk_records :
                LET rec == runs[RunOf(p.id)].chunk_records[i] IN
                /\ rec.vector_id = p.id
                /\ rec.id = p.chunk_id
                /\ rec.text = p.text
                /\ rec.page_number = p.page_number
                /\ p.document_id = DocOf(RunOf(p.id))
    /\ \A e \in lexical :
          /\ e.chunk_id # NoKey
          /\ \E i \in DOMAIN runs[RunOf(e.id)].chunk_records :
                LET rec == runs[RunOf(e.id)].chunk_records[i] IN
                /\ rec.search_id = e.id
                /\ rec.id = e.chunk_id
                /\ rec.text = e.text
                /\ rec.chunk_index = e.chunk_index
                /\ e.document_id = DocOf(RunOf(e.id))

C5_Witness ==
    \E r \in DOMAIN runs :
        /\ runs[r].pc = "complete"
        /\ Len(runs[r].chunk_records) = 2
        /\ Cardinality(RowsOf(r, vectors)) = 2
        /\ Cardinality(RowsOf(r, lexical)) = 2

\* C6: when a run completes its document, chunk_count is the number of
\* fragments the page-aware fragmenter produced in the run, which is the
\* number of chunk rows the run committed, and the row of each fragment
\* carries the keys the vector index and the lexical index returned for that
\* fragment.
C6_CompletedCountsAndKeys ==
    [][\A r \in DOMAIN runs :
          (runs[r].pc = "complete" /\ runs'[r].pc = "done") =>
              LET d == DocOf(r)
                  chunks_data == runs[r].chunks_data
                  rows == RowsOf(r, chunks')
              IN /\ documents'[d].status = COMPLETED
                 /\ documents'[d].chunk_count = Len(chunks_data)
                 /\ Cardinality(rows) = Len(chunks_data)
                 /\ Len(runs[r].vector_ids) = Len(chunks_data)
                 /\ Len(runs[r].search_ids) = Len(chunks_data)
                 /\ \A i \in 1..Len(chunks_data) :
                       \E c \in rows :
                          /\ c.document_id = d
                          /\ c.chunk_index = chunks_data[i].chunk_index
                          /\ c.text = chunks_data[i].text
                          /\ c.page_number = chunks_data[i].page_number
                          /\ c.vector_id = runs[r].vector_ids[i]
                          /\ c.search_id = runs[r].search_ids[i]
                          /\ \A p \in vectors' :
                                p.id = c.vector_id =>
                                    p.chunk_id = c.id /\ p.text = c.text
                          /\ \A e \in lexical' :
                                e.id = c.search_id =>
                                    e.chunk_id = c.id /\ e.text = c.text
      ]_vars

C6_Witness ==
    \E r \in DOMAIN runs :
        /\ runs[r].result = "success"
        /\ Len(runs[r].chunks_data) = 2
        /\ Exists(DocOf(r))
        /\ documents[DocOf(r)].status = COMPLETED
        /\ documents[DocOf(r)].chunk_count = 2
        /\ Cardinality(RowsOf(r, chunks)) = 2

\* C7: when the batched embedding call fails, no vector of the batch is
\* used, the run creates no fragment record, vector entry or lexical entry,
\* and its except clause leaves the document failed.
C7_EmbeddingFailureIsAtomic ==
    [][\A r \in DOMAIN runs' :
          runs'[r].failed_at = "embed" =>
              /\ runs'[r].pc \in {"except", "done"}
              /\ runs'[r].embeddings_list = <<>>
              /\ runs'[r].chunk_records = <<>>
              /\ RowsOf(r, chunks') = {}
              /\ RowsOf(r, vectors') = {}
              /\ RowsOf(r, lexical') = {}
              /\ (r \in DOMAIN runs /\ ExceptClauseRuns(r)
                    /\ DocOf(r) \in DOMAIN documents') =>
                        documents'[DocOf(r)].status = FAILED
      ]_vars

C7_Witness ==
    \E r \in DOMAIN runs :
        /\ runs[r].pc = "done"
        /\ runs[r].failed_at = "embed"
        /\ Len(runs[r].chunks_data) = 2
        /\ Exists(DocOf(r))
        /\ documents[DocOf(r)].status = FAILED

\* C8: when the lexical index rejects fragment j, the entries of the
\* fragments before j have been written and stay, the vector entries of the
\* run stay, the except clause leaves the document failed, and no step of a
\* run removes an entry from either index.
C8_LexicalFailureLeavesPartialWrites ==
    [][/\ \A r \in DOMAIN runs :
             (runs[r].pc = "lexical" /\ runs'[r].pc = "except") =>
                 /\ vectors' = vectors
                 /\ lexical \subseteq lexical'
                 /\ Len(runs'[r].search_ids) < Len(runs[r].chunk_records)
                 /\ {e.chunk_id : e \in RowsOf(r, lexical')} =
                        {runs[r].chunk_records[i].id :
                            i \in 1..Len(runs'[r].search_ids)}
       /\ \A r \in DOMAIN runs :
             (ExceptClauseRuns(r) /\ runs[r].failed_at = "lexical") =>
                 /\ vectors' = vectors
                 /\ lexical' = lexical
                 /\ DocOf(r) \in DOMAIN documents' =>
                        documents'[DocOf(r)].status = FAILED
       /\ (~(vectors \subseteq vectors') \/ ~(lexical \subseteq lexical')) =>
             runs' = runs
      ]_vars

C8_Witness ==
    \E r \in DOMAIN runs :
        /\ runs[r].pc = "done"
        /\ runs[r].failed_at = "lexical"
        /\ Len(runs[r].search_ids) = 1
        /\ Exists(DocOf(r))
        /\ documents[DocOf(r)].status = FAILED
        /\ Cardinality(RowsOf(r, vectors)) = 2
        /\ Cardinality(RowsOf(r, lexical)) = 1

\* C9: a run on an existing document has set the status to processing and
\* committed it before it fetches, extracts, fragments, embeds or writes any
\* record or index entry.
C9_ProcessingFirst ==
    \A r \in DOMAIN runs :
        /\ runs[r].pc \in {"fetch", "extract", "embed", "persist", "vectors",
                           "lexical", "complete"} =>
              /\ runs[r].began
              /\ Exists(DocOf(r)) => documents[DocOf(r)].status = PROCESSING
        /\ ~runs[r].began =>
              /\ runs[r].file_bytes = NoFile
              /\ runs[r].chunks_data = <<>>
              /\ runs[r].embeddings_list = <<>>
              /\ runs[r].chunk_records = <<>>
              /\ RowsOf(r, chunks) = {}
              /\ RowsOf(r, vectors) = {}
              /\ RowsOf(r, lexical) = {}

C9_Witness ==
    \E r \in DOMAIN runs :
        /\ runs[r].pc = "complete"
        /\ Exists(DocOf(r))
        /\ documents[DocOf(r)].status = PROCESSING
        /\ RowsOf(r, vectors) # {}

\* C10: no step changes a status from completed or failed (or anything else)
\* to pending; a document is pending only from its creation by upload on.
C10_PendingOnlyAtCreation ==
    [][\A d \in DOMAIN documents' :
          documents'[d].status = PENDING =>
              \/ d \in DOMAIN documents /\ documents[d].status = PENDING
              \/ /\ d \notin DOMAIN documents
                 /\ d = next_document_id
                 /\ next_document_id' = d + 1
      ]_vars

\* A second run has begun on a document that an earlier run left completed
\* or failed.
C10_Witness ==
    \E r1, r2 \in DOMAIN runs :
        /\ r1 < r2
        /\ DocOf(r1) = DocOf(r2)
        /\ runs[r1].result \in {"success", "error"}
        /\ runs[r1].began
        /\ runs[r2].began
        /\ Exists(DocOf(r2))

\* The row of document d, or that there is none.
DocRow(d) == IF Exists(d) THEN <<documents[d]>> ELSE <<>>

\* What the stores hold for document d.
DataOf(d) ==
    [chunks |-> {c \in chunks : c.document_id = d},
     vectors |-> {p \in vectors : p.document_id = d},
     lexical |-> {e \in lexical : e.document_id = d}]

\* The fragments a run computes from the file when nothing else runs.
AloneFragments(file_bytes) ==
    chunk_with_page_info(extract_text_by_page(file_bytes), 0, 0)

Attributes(rows) == {<<c.text, c.chunk_index, c.page_number>> : c \in rows}

\* C11: a step of a run on another document changes nothing of a run: not
\* its locals, its document row, its rows or entries in the three stores; a
\* run that completes leaves the status, chunk_count, chunk rows and (unless
\* a delete of its document is under way) index payloads that follow from its
\* file alone; every row and payload carries the document id of the run that
\* wrote it.
C11_RunsOnDifferentDocumentsDoNotInterfere ==
    [][/\ \A r1, r2 \in DOMAIN runs :
             (r1 # r2 /\ DocOf(r1) # DocOf(r2) /\ runs'[r2] # runs[r2]) =>
                 /\ runs'[r1] = runs[r1]
                 /\ DocRow(DocOf(r1))' = DocRow(DocOf(r1))
                 /\ DataOf(DocOf(r1))' = DataOf(DocOf(r1))
                 /\ RowsOf(r1, chunks') = RowsOf(r1, chunks)
                 /\ RowsOf(r1, vectors') = RowsOf(r1, vectors)
                 /\ RowsOf(r1, lexical') = RowsOf(r1, lexical)
       /\ \A r \in DOMAIN runs :
             (runs[r].pc = "complete" /\ runs'[r].pc = "done") =>
                 LET alone == AloneFragments(runs[r].file_bytes)
                     expected == {<<alone[i].text, alone[i].chunk_index,
                                    alone[i].page_number>> : i \in 1..Len(alone)}
                 IN /\ documents'[DocOf(r)].status = COMPLETED
                    /\ documents'[DocOf(r)].chunk_count = Len(alone)
                    /\ Attributes(RowsOf(r, chunks')) = expected
                    /\ DocOf(r) \notin deleting =>
                          /\ {<<p.text, p.page_number>> : p \in RowsOf(r, vectors')}
                                = {<<x[1], x[3]>> : x \in expected}
                          /\ Attributes(RowsOf(r, lexical')) = expected
       /\ \A c \in chunks' \cup vectors' \cup lexical' :
             c.document_id = runs'[RunOf(c.id)].document_id
      ]_vars

\* Two runs on different documents are in flight together, each with its
\* entries written to both indexes.
C11_Witness ==
    \E r1, r2 \in DOMAIN runs :
        /\ DocOf(r1) # DocOf(r2)
        /\ runs[r1].pc = "complete"
        /\ runs[r2].pc = "complete"
        /\ RowsOf(r1, lexical) # {}
        /\ RowsOf(r2, lexical) # {}

\* The task invocations made for document d so far.
RunsOn(d) == {q \in DOMAIN runs : DocOf(q) = d}

\* C12: when a run completes a document with k fragments after an earlier run
\* completed it with k fragments (every run on it so far succeeded and no
\* delete of it is under way), the document has k chunk rows, k points and k
\* lexical entries per run: the second run leaves 2k of each, and what the
\* earlier run wrote is still there.
C12_RerunDuplicates ==
    [][\A r \in DOMAIN runs :
          LET d == DocOf(r)
              k == Len(runs[r].chunks_data)
              n == Cardinality(RunsOn(d))
          IN (/\ runs[r].pc = "complete" /\ runs'[r].pc = "done"
              /\ n >= 2
              /\ \A q \in RunsOn(d) \ {r} : runs[q].result = "success"
              /\ d \notin deleting) =>
                 /\ \A q \in RunsOn(d) : Len(runs[q].chunks_data) = k
                 /\ Cardinality(DataOf(d).chunks') = n * k
                 /\ Cardinality(DataOf(d).vectors') = n * k
                 /\ Cardinality(DataOf(d).lexical') = n * k
                 /\ \A q \in RunsOn(d) \ {r} :
                       /\ Cardinality(RowsOf(q, chunks')) = k
                       /\ RowsOf(q, chunks') = RowsOf(q, chunks)
                       /\ RowsOf(q, vectors') = RowsOf(q, vectors)
                       /\ RowsOf(q, lexical') = RowsOf(q, lexical)
      ]_vars

\* Two runs have completed the same document, each with 2 fragments.
C12_Witness ==
    \E r1, r2 \in DOMAIN runs :
        /\ r1 < r2
        /\ DocOf(r1) = DocOf(r2)
        /\ runs[r1].result = "success"
        /\ runs[r2].result = "success"
        /\ Len(runs[r2].chunks_data) = 2
        /\ Cardinality(DataOf(DocOf(r2)).chunks) = 4
        /\ Cardinality(DataOf(DocOf(r2)).vectors) = 4
        /\ Cardinality(DataOf(DocOf(r2)).lexical) = 4

\* Nothing of document d is left outside the relational store.
NothingIndexed(d) ==
    /\ d \notin DOMAIN storage
    /\ DataOf(d).vectors = {}
    /\ DataOf(d).lexical = {}

\* C13: delete_document removes everything of the document. Its deletes of
\* the blob, the points and the lexical entries leave none of document d; its
\* database delete leaves no document row and no chunk row of d; and between
\* the two nothing of d comes back unless a process run on d is active and
\* takes the step that writes it. So with no run active on d, nothing of d is
\* left when delete_document has succeeded.
C13_DeleteCascades ==
    [][\A d \in DocIds :
          /\ (d \notin deleting /\ d \in deleting') => NothingIndexed(d)'
          /\ (d \in deleting /\ d \notin deleting') =>
                /\ d \notin DOMAIN documents'
                /\ DataOf(d).chunks' = {}
                /\ NothingIndexed(d) => NothingIndexed(d)'
          /\ (d \in deleting /\ NothingIndexed(d) /\ ~NothingIndexed(d)') =>
                \E q \in RunsOn(d) :
                    /\ runs[q].pc \in Active
                    /\ runs'[q] # runs[q]
      ]_vars

\* A document that a run had completed, with rows and entries in every
\* store, has been deleted and nothing of it is left anywhere.
C13_Witness ==
    \E r \in DOMAIN runs :
        /\ runs[r].result = "success"
        /\ runs[r].search_ids # <<>>
        /\ ~Exists(DocOf(r))
        /\ DocOf(r) \notin deleting
        /\ DataOf(DocOf(r)).chunks = {}
        /\ NothingIndexed(DocOf(r))

\* ------------------------------------------------ claims on the fragmenter

\* The direct call of the given method has returned.
Returned(method) == returned.done /\ call.method = method

\* The token estimates of a list of units, added up.
RECURSIVE SumTokens(_)
SumTokens(units) ==
    IF units = <<>> THEN 0
    ELSE estimate_tokens(Head(units)) + SumTokens(Tail(units))

\* The last n elements of a list.
Suffix(list, n) == SubSeq(list, Len(list) - n + 1, Len(list))

\* The units line 90 appended to a fragment: all but the seeded ones.
NewUnits(chunk) == SubSeq(chunk.units, chunk.seeded + 1, Len(chunk.units))

\* C14: chunk_text on the empty string returns no fragment, and
\* chunk_with_page_info returns no fragment for a page whose text is empty.
C14_EmptyInputYieldsNoFragment ==
    /\ (Returned("chunk_text") /\ call.text = <<>>) => returned.chunks = <<>>
    /\ Returned("chunk_with_page_info") =>
          \A p \in DOMAIN call.pages :
              call.pages[p].text = <<>> =>
                  \A i \in DOMAIN returned.chunks :
                      returned.chunks[i].page_number # call.pages[p].page_number

\* C15: for every chunk_size >= 1 and every overlap >= 0 passed, the units
\* seeded at the start of a fragment are the last units of the fragment before
\* it, and their token estimates add up to at most the overlap passed.
C15_OverlapWithinPassedValue ==
    (Returned("chunk_text") /\ call.chunk_size >= 1) =>
        \A k \in 1..(Len(returned.chunks) - 1) :
            LET earlier == returned.chunks[k]
                later == returned.chunks[k + 1]
                repeated == SubSeq(later.units, 1, later.seeded)
            IN /\ later.seeded <= Len(earlier.units)
               /\ repeated = Suffix(earlier.units, later.seeded)
               /\ SumTokens(repeated) <= call.overlap

\* C16: a unit whose token estimate exceeds the chunk_size passed is emitted
\* whole and as the only unit of its fragment.
C16_OversizedUnitAlone ==
    (Returned("chunk_text") /\ call.chunk_size >= 1) =>
        \A k \in DOMAIN returned.chunks :
            \A j \in DOMAIN returned.chunks[k].units :
                estimate_tokens(returned.chunks[k].units[j]) > call.chunk_size =>
                    /\ Len(returned.chunks[k].units) = 1
                    /\ returned.chunks[k].text = returned.chunks[k].units[j]

\* C17: when the token estimates of the units of the text add up to at most
\* the chunk_size passed, chunk_text returns exactly one fragment, made of
\* all the units in their order.
C17_FitsInOneFragment ==
    LET sentences == SplitSentences(call.text) IN
    (Returned("chunk_text") /\ SumTokens(sentences) <= call.chunk_size) =>
        /\ Len(returned.chunks) = 1
        /\ returned.chunks[1].units = sentences
        /\ returned.chunks[1].text = Join(sentences)
        /\ returned.chunks[1].token_count = SumTokens(sentences)
        /\ SplitSentences(returned.chunks[1].text) = sentences

\* Three units that fill the chunk_size passed exactly came back as one
\* fragment.
C17_Witness ==
    /\ Returned("chunk_text")
    /\ Len(SplitSentences(call.text)) = 3
    /\ SumTokens(SplitSentences(call.text)) = call.chunk_size
    /\ Len(returned.chunks) = 1
    /\ Len(returned.chunks[1].units) = 3

\* C18: for a non-empty text, and for a non-empty list of pages, the
\* chunk_index values of the returned fragments read in list order are
\* 0, 1, ..., k.
C18_IndexesAreGapFree ==
    /\ Returned("chunk_text") =>
          /\ call.text # <<>> => Len(returned.chunks) >= 1
          /\ \A i \in DOMAIN returned.chunks :
                returned.chunks[i].chunk_index = i - 1
    /\ Returned("chunk_with_page_info") =>
          /\ call.pages # <<>> => Len(returned.chunks) >= 1
          /\ \A i \in DOMAIN returned.chunks :
                returned.chunks[i].chunk_index = i - 1

\* Two pages came back as four or more fragments, the last one numbered one
\* below their count.
C18_Witness ==
    /\ Returned("chunk_with_page_info")
    /\ Len(call.pages) = 2
    /\ Len(returned.chunks) >= 4
    /\ returned.chunks[Len(returned.chunks)].chunk_index = Len(returned.chunks) - 1
    /\ returned.chunks[Len(returned.chunks)].page_number = 2

\* The fragments chunk_text returns for each page on its own, page after
\* page, each with the page_number of its page.
RECURSIVE PageByPage(_, _, _)
PageByPage(pages, chunk_size_arg, overlap_arg) ==
    IF pages = <<>> THEN <<>>
    ELSE LET own == chunk_text(Head(pages).text, chunk_size_arg, overlap_arg)
         IN [k \in 1..Len(own) |->
                [own[k] EXCEPT !.page_number = Head(pages).page_number]]
            \o PageByPage(Tail(pages), chunk_size_arg, overlap_arg)

\* units is a run of consecutive elements of sentences.
IsRunOf(units, sentences) ==
    \E start \in 1..(Len(sentences) - Len(units) + 1) :
        SubSeq(sentences, start, start + Len(units) - 1) = units

\* C19: chunk_with_page_info returns, in page order, the fragments chunk_text
\* returns for each page on its own, stamped with the page_number of the page
\* and numbered 0.. across the pages; every fragment is made of units of its
\* own page only, and the first fragment of a page is seeded with nothing.
C19_PagesFragmentedIndependently ==
    Returned("chunk_with_page_info") =>
        LET expected == PageByPage(call.pages, call.chunk_size, call.overlap)
            all_chunks == returned.chunks
        IN /\ Len(all_chunks) = Len(expected)
           /\ \A i \in DOMAIN all_chunks :
                 /\ all_chunks[i] = [expected[i] EXCEPT !.chunk_index = i - 1]
                 /\ \E p \in DOMAIN call.pages :
                       /\ call.pages[p].page_number = all_chunks[i].page_number
                       /\ IsRunOf(all_chunks[i].units,
                                  SplitSentences(call.pages[p].text))
                 /\ (i = 1 \/ all_chunks[i - 1].page_number
                                  # all_chunks[i].page_number) =>
                       all_chunks[i].seeded = 0

\* Two pages, each returned as two or more fragments, with a fragment of the
\* second page seeded with overlap from the fragment before it.
C19_Witness ==
    /\ Returned("chunk_with_page_info")
    /\ Len(call.pages) = 2
    /\ Cardinality({i \in DOMAIN returned.chunks :
                        returned.chunks[i].page_number = 1}) >= 2
    /\ \E i \in DOMAIN returned.chunks :
          /\ returned.chunks[i].page_number = 2
          /\ returned.chunks[i].seeded >= 1
          /\ Len(returned.chunks[i].units) >= 2

\* The units line 90 appended, fragment after fragment from the k-th on.
RECURSIVE NewUnitsFrom(_, _)
NewUnitsFrom(chunk_list, k) ==
    IF k > Len(chunk_list) THEN <<>>
    ELSE NewUnits(chunk_list[k]) \o NewUnitsFrom(chunk_list, k + 1)

\* C20: the fragments of a text cover it once: each fragment's text is its
\* units joined and splits back into them, its seeded units repeat the end of
\* the fragment before it, it has at least one unit of its own, and the units
\* of the fragments without the seeded ones, in list order, are the units of
\* the text, each once and in order.
C20_FragmentsCoverTextOnce ==
    Returned("chunk_text") =>
        /\ NewUnitsFrom(returned.chunks, 1) = SplitSentences(call.text)
        /\ \A k \in DOMAIN returned.chunks :
              LET chunk == returned.chunks[k] IN
              /\ chunk.text = Join(chunk.units)
              /\ SplitSentences(chunk.text) = chunk.units
              /\ chunk.seeded < Len(chunk.units)
              /\ IF k = 1 THEN chunk.seeded = 0
                 ELSE /\ chunk.seeded <= Len(returned.chunks[k - 1].units)
                      /\ SubSeq(chunk.units, 1, chunk.seeded) =
                            Suffix(returned.chunks[k - 1].units, chunk.seeded)

\* A text came back as three or more fragments, one of them seeded with
\* overlap.
C20_Witness ==
    /\ Returned("chunk_text")
    /\ Len(returned.chunks) >= 3
    /\ \E k \in DOMAIN returned.chunks :
          /\ returned.chunks[k].seeded >= 1
          /\ estimate_tokens(returned.chunks[k].units[1]) >= 1

\* A raw score of raw_score units and the score found in its place after
\* the call are the same number.  A unit is 0.5e-10, so a whole number of
\* units equals a fraction of small whole numbers only when both are zero.
SameScore(raw_score, score_after) == raw_score = 0 /\ score_after[1] = 0

\* The list the caller holds after the call is the list it passed.
SameHits(before, after) == Len(after) = Len(before) /\ \A i \in DOMAIN before : SameScore(before[i].score, after[i].score) /\ [after[i] EXCEPT !.score = 0] = [before[i] EXCEPT !.score = 0]

\* C21: a fuse call (_combine_results with _normalize_scores) leaves the
\* vector_hits and keyword_hits sequences passed to it unchanged: every hit
\* has the same raw score after the call as before it.
C21_FuseLeavesHitsUnchanged == Returned("_combine_results") => SameHits(call.vector_results, returned.vector_results) /\ SameHits(call.keyword_results, returned.keyword_results)

\* The hits a source returned to the search call: the first source_limit.
Fetched(index) == Take(index, returned.source_limit)

\* The fragment is among the hits.
InVector(hits, chunk_id) == \E i \in DOMAIN hits : hits[i].payload.chunk_id = chunk_id

InKeyword(hits, chunk_id) == \E i \in DOMAIN hits : hits[i].chunk_id = chunk_id

\* The place of a fragment in the order "vector list first, then the
\* fragments only the keyword search found, in the keyword list's order".
MergeRank(vector_hits, keyword_hits, chunk_id) ==
    IF InVector(vector_hits, chunk_id)
    THEN CHOOSE i \in DOMAIN vector_hits : vector_hits[i].payload.chunk_id = chunk_id
    ELSE Len(vector_hits) + (CHOOSE i \in DOMAIN keyword_hits : keyword_hits[i].chunk_id = chunk_id)

\* C22: the list search returns is sorted descending by combined score, and
\* results of equal combined score keep the order: fragments of the vector
\* list in that list's order, then the fragments found only by the keyword
\* search in the keyword list's order.
C22_SortedDescendingStableTies == Returned("search") => \A i, j \in DOMAIN returned.results : i < j => /\ ~RatLess(returned.results[i].score, returned.results[j].score) /\ (RatEq(returned.results[i].score, returned.results[j].score) => MergeRank(Fetched(call.vector_index), Fetched(call.keyword_index), returned.results[i].chunk_id) < MergeRank(Fetched(call.vector_index), Fetched(call.keyword_index), returned.results[j].chunk_id))

\* A search returned three results: a vector fragment tied with a fragment
\* only the keyword search found, and a result of a different score.
C22_Witness == Returned("search") /\ Len(returned.results) = 3 /\ \E i, j, k \in DOMAIN returned.results : /\ i < j /\ RatEq(returned.results[i].score, returned.results[j].score) /\ InVector(call.vector_index, returned.results[i].chunk_id) /\ ~InVector(call.vector_index, returned.results[j].chunk_id) /\ RatLess(Zero, returned.results[i].score) /\ ~RatEq(returned.results[k].score, returned.results[i].score)

\* The fragment ids of the two hit lists.
VectorIds(hits) == {hits[i].payload.chunk_id : i \in DOMAIN hits}

KeywordIds(hits) == {hits[i].chunk_id : i \in DOMAIN hits}

\* The normalized score of the fragment within its own list.
NormalizedVector(hits, chunk_id) == _normalize_scores(hits)[CHOOSE i \in DOMAIN hits : hits[i].payload.chunk_id = chunk_id].score

NormalizedKeyword(hits, chunk_id) == _normalize_scores(hits)[CHOOSE i \in DOMAIN hits : hits[i].chunk_id = chunk_id].score

\* The fused result carries the scores and highlight its sources give it.
CarriesSources(result, vector_hits, keyword_hits) ==
    /\ IF result.chunk_id \in VectorIds(vector_hits)
       THEN RatEq(result.vector_score, NormalizedVector(vector_hits, result.chunk_id))
       ELSE result.vector_score = Zero
    /\ IF result.chunk_id \in KeywordIds(keyword_hits)
       THEN /\ RatEq(result.keyword_score, NormalizedKeyword(keyword_hits, result.chunk_id))
            /\ result.highlighted_text = HitHighlight(result.chunk_id)
       ELSE result.keyword_score = Zero

\* C23: the fused output has exactly one result per distinct fragment id in
\* the union of the two hit lists; a fragment only in the vector list has
\* keyword_score 0.0, one only in the keyword list has vector_score 0.0, and
\* one in both carries both normalized scores and the keyword hit's
\* highlighted text.
C23_OneResultPerFragment == Returned("_combine_results") => /\ {returned.results[i].chunk_id : i \in DOMAIN returned.results} = VectorIds(call.vector_results) \cup KeywordIds(call.keyword_results) /\ Len(returned.results) = Cardinality(VectorIds(call.vector_results) \cup KeywordIds(call.keyword_results)) /\ \A i \in DOMAIN returned.results : CarriesSources(returned.results[i], call.vector_results, call.keyword_results)

\* A fuse call returned a vector-only fragment, a keyword-only fragment and a
\* fragment of both lists whose two normalized scores differ.
C23_Witness == Returned("_combine_results") /\ Len(returned.results) = 3 /\ \E i, j, k \in DOMAIN returned.results : /\ returned.results[i].chunk_id \in VectorIds(call.vector_results) \ KeywordIds(call.keyword_results) /\ returned.results[j].chunk_id \in KeywordIds(call.keyword_results) \ VectorIds(call.vector_results) /\ returned.results[k].chunk_id \in VectorIds(call.vector_results) \cap KeywordIds(call.keyword_results) /\ RatLess(returned.results[k].keyword_score, returned.results[k].vector_score) /\ returned.results[i].keyword_score = Zero /\ returned.results[j].vector_score = Zero

\* The smallest and the largest raw score of the list given.
Lo(results) == CHOOSE s \in {results[i].score : i \in DOMAIN results} : \A i \in DOMAIN results : s <= results[i].score

Hi(results) == CHOOSE s \in {results[i].score : i \in DOMAIN results} : \A i \in DOMAIN results : s >= results[i].score

\* C24: _normalize_scores maps each score s of a non-empty list to
\* (s - lo) / (hi - lo) when hi - lo >= 1e-10 and to 1.0 when hi - lo < 1e-10,
\* maps the empty list to the empty list, keeps the number and the order of
\* the results, and every normalized score lies in [0, 1].
C24_MinMaxNormalization == Returned("_normalize_scores") => /\ Len(returned.results) = Len(call.results) /\ \A i \in DOMAIN call.results : /\ returned.results[i].payload = call.results[i].payload /\ returned.results[i].id = call.results[i].id /\ ~RatLess(returned.results[i].score, Zero) /\ ~RatLess(One, returned.results[i].score) /\ IF Hi(call.results) - Lo(call.results) >= Threshold THEN (Hi(call.results) - Lo(call.results)) * returned.results[i].score[1] = (call.results[i].score - Lo(call.results)) * returned.results[i].score[2] ELSE returned.results[i].score[1] = returned.results[i].score[2]

\* Three scores a step of 1e-10 apart were normalized to 0, 0.5 and 1.
C24_Witness == Returned("_normalize_scores") /\ Len(call.results) = 3 /\ call.results[2].score - call.results[1].score = Threshold /\ call.results[3].score - call.results[2].score = Threshold /\ RatEq(returned.results[1].score, Zero) /\ RatEq(returned.results[2].score, <<1, 2>>) /\ RatEq(returned.results[3].score, One)

\* vector_score * w + keyword_score * (1 - w), the weight w in tenths and
\* the scores as fractions; the equation is cleared of denominators.
IsWeightedSum(score, vector_score, keyword_score, tenths) == score[1] * (10 * vector_score[2] * keyword_score[2]) = (vector_score[1] * tenths * keyword_score[2] + keyword_score[1] * (10 - tenths) * vector_score[2]) * score[2]

\* C25: every fused result's combined score equals vector_score *
\* vector_weight + keyword_score * (1 - vector_weight), taken from the
\* normalized per-source scores of that same fragment, and so lies in
\* [0, 1] for a vector_weight in [0, 1].
C25_CombinedScoreIsWeightedSum == Returned("_combine_results") => \A i \in DOMAIN returned.results : /\ IsWeightedSum(returned.results[i].score, IF returned.results[i].chunk_id \in VectorIds(call.vector_results) THEN NormalizedVector(call.vector_results, returned.results[i].chunk_id) ELSE Zero, IF returned.results[i].chunk_id \in KeywordIds(call.keyword_results) THEN NormalizedKeyword(call.keyword_results, returned.results[i].chunk_id) ELSE Zero, call.vector_weight) /\ ~RatLess(returned.results[i].score, Zero) /\ ~RatLess(One, returned.results[i].score)

\* With weight 0.7 a fragment scored 1.0 by the vector search and 0.0 by the
\* keyword search got 0.7, and one scored the other way round got 0.3.
C25_Witness == Returned("_combine_results") /\ call.vector_weight = 7 /\ \E i, j \in DOMAIN returned.results : /\ RatEq(returned.results[i].vector_score, One) /\ RatEq(returned.results[i].keyword_score, Zero) /\ returned.results[i].chunk_id \in KeywordIds(call.keyword_results) /\ RatEq(returned.results[i].score, <<7, 10>>) /\ RatEq(returned.results[j].vector_score, Zero) /\ RatEq(returned.results[j].keyword_score, One) /\ returned.results[j].chunk_id \in VectorIds(call.vector_results) /\ RatEq(returned.results[j].score, <<3, 10>>)

\* The fused list of everything the two sources returned, sorted.
FusedSorted == SortByScore(_combine_results(Fetched(call.vector_index), Fetched(call.keyword_index), call.hybrid_weight), 1, <<>>)

\* The number of positions offset..offset+limit-1 a list of n results has.
PageLength(n, limit, offset) == IF n <= offset THEN 0 ELSE IF n - offset < limit THEN n - offset ELSE limit

\* C26: for a search request with limit L and offset O each source is asked
\* for at least L + O hits, the fusion runs on everything fetched, and the
\* response is exactly positions O..O+L-1 of the fused sorted list, hence at
\* most L results.
C26_PaginationAfterFusion == Returned("search_documents") => /\ returned.source_limit >= call.limit + call.offset /\ Len(returned.results) = PageLength(Len(FusedSorted), call.limit, call.offset) /\ Len(returned.results) <= call.limit /\ \A i \in DOMAIN returned.results : returned.results[i] = FusedSorted[call.offset + i]

\* A request with an offset beyond its limit got the one result at that
\* position of a fused list of three different scores.
C26_Witness == Returned("search_documents") /\ call.limit = 1 /\ call.offset = 2 /\ Len(FusedSorted) = 3 /\ returned.results = <<FusedSorted[3]>> /\ RatLess(FusedSorted[3].score, FusedSorted[2].score) /\ RatLess(FusedSorted[2].score, FusedSorted[1].score)

\* C27: similarity(a, b) signals an error, and returns no value (in
\* particular not NaN), whenever a or b has zero norm.
C27_ZeroNormSignalsError == Returned("similarity") /\ (Dot(call.embedding1, call.embedding1) = 0 \/ Dot(call.embedding2, call.embedding2) = 0) => returned.raised /\ returned.value # NaN

\* delete_document has returned success for document d: the row it loaded is
\* gone and no delete of d is under way.
Deleted(d) == d < next_document_id /\ ~Exists(d) /\ d \notin deleting

\* C28: after delete_document has returned success for a document, no point
\* of the vector index, no lexical entry and no chunk row with that
\* document_id exists in any later state, also when a process run on the
\* document was in progress while the delete executed.
C28_NothingOfADeletedDocument == \A d \in DocIds : Deleted(d) => DataOf(d).chunks = {} /\ DataOf(d).vectors = {} /\ DataOf(d).lexical = {}

\* C29: every fragment chunk_text emits that consists of two or more
\* sentence units has token_count <= the chunk_size passed; only a fragment
\* made of a single unit may exceed it.
C29_MultiUnitFragmentWithinTarget == (Returned("chunk_text") /\ call.chunk_size >= 1) => \A k \in DOMAIN returned.chunks : Len(returned.chunks[k].units) >= 2 => returned.chunks[k].token_count <= call.chunk_size

====
